---- MODULE Spec2Model ----
(***************************************************************************)
(* The PodSecurity warning tools of kube-plays (src/main.go holds the two  *)
(* programs: the simpler aggregator, lines 1-179, and the enrichment-      *)
(* capable one, lines 181-371).  A warningsMapper is installed as the      *)
(* client's WarningHandler; every namespace is updated in dry-run mode     *)
(* with its audit level as enforce level, the warnings the server attaches *)
(* are parsed into a tree of namespace and pod violations, the enrichment  *)
(* variant then looks up each pod's owning Deployment, and the tree is     *)
(* printed as JSON.  The last part models the log search of              *)
(* src/cmd/policy-controller-logs/main.go, which starts one goroutine per  *)
(* listed pod and waits for them on a sync.WaitGroup.                      *)
(*                                                                         *)
(* Texts are sequences of one-character strings, so that prefix tests,     *)
(* splitting, trimming and the regular expression are computed as the      *)
(* code computes them.                                                     *)
(***************************************************************************)
EXTENDS Integers, Sequences, FiniteSets, TLC

\* Bounds of the model.
\* HandleWarningHeader calls made on one warningsMapper by the handler harness.
MaxCalls == 3
\* Warning headers the server attaches over one run of app.
MaxWarnings == 3
\* Namespaces the server lists.
MaxNamespaces == 2
\* Pods the server lists for the log search.
MaxPods == 2

-----------------------------------------------------------------------------
(* Warning texts *)

\* the literal of strings.HasPrefix
\*   existing pods in namespace
NamespacePrefix ==
    <<
       "e","x","i","s","t","i","n","g"," ","p","o","d","s"," ","i","n",
       " ","n","a","m","e","s","p","a","c","e"
    >>

\* the example warning [0] of the source comment
\*   existing pods in namespace "p0t-sekurity" violate the new PodSecurity enforce level "restricted:latest"
NsMsgA ==
    <<
       "e","x","i","s","t","i","n","g"," ","p","o","d","s"," ","i","n",
       " ","n","a","m","e","s","p","a","c","e"," ","\"","p","0","t","-",
       "s","e","k","u","r","i","t","y","\""," ","v","i","o","l","a","t",
       "e"," ","t","h","e"," ","n","e","w"," ","P","o","d","S","e","c",
       "u","r","i","t","y"," ","e","n","f","o","r","c","e"," ","l","e",
       "v","e","l"," ","\"","r","e","s","t","r","i","c","t","e","d",":",
       "l","a","t","e","s","t","\""
    >>

\* a second namespace-shape text, two quoted segments
\*   existing pods in namespace "b" violate "baseline"
NsMsgB ==
    <<
       "e","x","i","s","t","i","n","g"," ","p","o","d","s"," ","i","n",
       " ","n","a","m","e","s","p","a","c","e"," ","\"","b","\""," ","v",
       "i","o","l","a","t","e"," ","\"","b","a","s","e","l","i","n","e",
       "\""
    >>

\* a namespace-shape text with three quoted segments
\*   existing pods in namespace "c" at "v1" see "doc"
NsMsgThree ==
    <<
       "e","x","i","s","t","i","n","g"," ","p","o","d","s"," ","i","n",
       " ","n","a","m","e","s","p","a","c","e"," ","\"","c","\""," ","a",
       "t"," ","\"","v","1","\""," ","s","e","e"," ","\"","d","o","c","\""
    >>

\* a namespace-shape text with one quoted segment
\*   existing pods in namespace "x"
NsMsgOneQuote ==
    <<
       "e","x","i","s","t","i","n","g"," ","p","o","d","s"," ","i","n",
       " ","n","a","m","e","s","p","a","c","e"," ","\"","x","\""
    >>

\* the example warning [1], cut to two violations
\*   p0t-sekurity: allowPrivilegeEscalation != false, unrestricted capabilities
PodMsgA ==
    <<
       "p","0","t","-","s","e","k","u","r","i","t","y",":"," ","a","l",
       "l","o","w","P","r","i","v","i","l","e","g","e","E","s","c","a",
       "l","a","t","i","o","n"," ","!","="," ","f","a","l","s","e",",",
       " ","u","n","r","e","s","t","r","i","c","t","e","d"," ","c","a",
       "p","a","b","i","l","i","t","i","e","s"
    >>

\* a pod-shape text with white space around the name (a form feed and a blank
\* before it, a no-break space after it) and a repeated violation
\*   <FF> web<NBSP>: runAsNonRoot != true, hostPort, hostPort
PodMsgB ==
    <<
       "\f"," ","w","e","b","U+00A0",":"," ","r","u","n","A","s","N","o","n","R",
       "o","o","t"," ","!","="," ","t","r","u","e",","," ","h","o","s",
       "t","P","o","r","t",","," ","h","o","s","t","P","o","r","t"
    >>

\* a pod-shape text whose remainder holds a second ": "
\*   db: hostPath: /var, privileged
PodMsgNested ==
    <<
       "d","b",":"," ","h","o","s","t","P","a","t","h",":"," ","/","v",
       "a","r",","," ","p","r","i","v","i","l","e","g","e","d"
    >>

\* a text with neither the prefix nor a separator
\*   deprecated
NoSepMsg == <<"d","e","p","r","e","c","a","t","e","d">>
\* the empty text
EmptyMsg == <<>>

Texts ==
    {EmptyMsg, NsMsgA, NsMsgB, NsMsgThree, NsMsgOneQuote,
     PodMsgA, PodMsgB, PodMsgNested, NoSepMsg}

\* Warning codes and agents the harness passes; the API server sends 299 and "-".
Codes == {199, 299}
Agents == {"-"}

-----------------------------------------------------------------------------
(* The string functions the handler uses *)

Min(S) == CHOOSE x \in S : \A y \in S : x <= y
Max(S) == CHOOSE x \in S : \A y \in S : x >= y

\* strings.HasPrefix
HasPrefix(s, prefix) ==
    /\ Len(s) >= Len(prefix)
    /\ SubSeq(s, 1, Len(prefix)) = prefix

\* strings.Index, 1-based: the place of the first occurrence of sep in s, 0 if none
Index(s, sep) ==
    LET hits == {i \in 1..(Len(s) - Len(sep) + 1) :
                    SubSeq(s, i, i + Len(sep) - 1) = sep}
    IN  IF hits = {} THEN 0 ELSE Min(hits)

\* strings.Split for a non-empty separator: all the parts, empty ones included
RECURSIVE Split(_, _)
Split(s, sep) ==
    LET i == Index(s, sep)
    IN  IF i = 0
        THEN <<s>>
        ELSE <<SubSeq(s, 1, i - 1)>> \o Split(SubSeq(s, i + Len(sep), Len(s)), sep)

\* A character that has no literal of its own is written as its code point, one
\* element of the text: "U+000B" is the vertical tab.

\* the white space strings.TrimSpace removes: the characters of unicode.IsSpace
WhiteSpace ==
    {"\t", "\n", "U+000B", "\f", "\r", " ", "U+0085", "U+00A0", "U+1680",
     "U+2000", "U+2001", "U+2002", "U+2003", "U+2004", "U+2005", "U+2006",
     "U+2007", "U+2008", "U+2009", "U+200A", "U+2028", "U+2029", "U+202F",
     "U+205F", "U+3000"}

\* strings.TrimSpace
TrimSpace(s) ==
    LET keep == {i \in 1..Len(s) : s[i] \notin WhiteSpace}
    IN  IF keep = {} THEN <<>> ELSE SubSeq(s, Min(keep), Max(keep))

Quote == <<"\"">>

\* titleRegex.FindAllStringSubmatch(text, -1) for titleRegex = "([^"]+)":
\* the leftmost non-overlapping matches, each <<whole match, group 1>>.
\* A quote directly followed by a quote matches nothing, and the search goes
\* on from the second quote.
RECURSIVE titleRegex(_)
titleRegex(text) ==
    LET open  == Index(text, Quote)
        rest  == SubSeq(text, open + 1, Len(text))
        close == Index(rest, Quote)
    IN  IF open = 0 \/ close = 0
        THEN <<>>
        ELSE IF close = 1
        THEN titleRegex(rest)
        ELSE <<  <<SubSeq(text, open, open + close), SubSeq(rest, 1, close - 1)>>  >>
                \o titleRegex(SubSeq(rest, close + 1, Len(rest)))

-----------------------------------------------------------------------------
(* warningsMapper *)

\* a nil pointer (Pod, Deployment, Peployment) and a nil interface (defaultHandler)
NIL == [Kind |-> "nil"]
NoHandler == "nil"
SpyHandler == "spy"

\* &warningsMapper{}: PSViolations is a nil slice until the first non-empty text
NewMapper(handler) ==
    [defaultHandler |-> handler, PSViolations |-> <<>>, isNil |-> TRUE]

\* the outcome of a call: the mapper after it, whether it panicked, and the
\* calls it made on the default handler
Returned(w, fwd) == [w |-> w, panic |-> FALSE, forward |-> fwd]
Panicked(w) == [w |-> w, panic |-> TRUE, forward |-> <<>>]

\* if len(w.PSViolations) == 0 { w.PSViolations = []*PSViolation{} }
InitSlice(w) ==
    [w EXCEPT !.isNil = IF Len(w.PSViolations) = 0 THEN FALSE ELSE @]

\* a faulty namespace branch: the Level is taken from the last quoted segment
NamespaceWarningLastSegment(w, text) ==
    LET titleMatches == titleRegex(text)
    IN  IF Len(titleMatches) < 2
        THEN Panicked(w)
        ELSE LET psv == [Namespace |-> titleMatches[1][2],
                         Level |-> titleMatches[Len(titleMatches)][2],
                         PodViolations |-> <<>>]
             IN  Returned([w EXCEPT !.PSViolations = Append(@, psv)], <<>>)

\* the namespace branch: titleMatches[0][1] and titleMatches[1][1] are indexed
\* unguarded, then the new PSViolation is appended
NamespaceWarning(w, text) ==
    LET titleMatches == titleRegex(text)
    IN  IF Len(titleMatches) < 2
        THEN Panicked(w)
        ELSE LET psv == [Namespace |-> titleMatches[1][2],
                         Level |-> titleMatches[2][2],
                         PodViolations |-> <<>>]
             IN  Returned([w EXCEPT !.PSViolations = Append(@, psv)], <<>>)

\* the pod branch of the simpler aggregator: its separators are ":" and ",", and
\* lastPSViolation is a copy of the last element ([]PSViolation holds values), so
\* the append changes the copy and the mapper keeps what it had
PodWarningSimple(w, text) ==
    LET n == Len(w.PSViolations)
        textSplit == Split(text, <<":">>)
    IN  IF n = 0 \/ Len(textSplit) < 2
        THEN Panicked(w)
        ELSE LET podViolation == [Name |-> TrimSpace(textSplit[1]),
                                  Peployment |-> NIL,
                                  Violations |-> Split(textSplit[2], <<",">>)]
                 lastPSViolation ==
                    [w.PSViolations[n] EXCEPT !.PodViolations = Append(@, podViolation)]
             IN  Returned(w, <<>>)

\* a faulty pod branch: a pod-shape text that finds no namespace violation is
\* dropped and the call returns
PodWarningIgnoresOrphan(w, text) ==
    LET n == Len(w.PSViolations)
        textSplit == Split(text, <<":", " ">>)
    IN  IF n = 0
        THEN Returned(w, <<>>)
        ELSE IF Len(textSplit) < 2
        THEN Panicked(w)
        ELSE LET podViolation == [Name |-> TrimSpace(textSplit[1]),
                                  Deployment |-> NIL,
                                  Pod |-> NIL,
                                  Violations |-> Split(textSplit[2], <<",", " ">>)]
             IN  Returned([w EXCEPT !.PSViolations[n].PodViolations =
                                        Append(@, podViolation)], <<>>)

\* a faulty pod branch: the separators of the simpler aggregator, ":" and ",",
\* with the append through the pointer
PodWarningWrongSeparators(w, text) ==
    LET n == Len(w.PSViolations)
        textSplit == Split(text, <<":">>)
    IN  IF n = 0 \/ Len(textSplit) < 2
        THEN Panicked(w)
        ELSE LET podViolation == [Name |-> TrimSpace(textSplit[1]),
                                  Deployment |-> NIL,
                                  Pod |-> NIL,
                                  Violations |-> Split(textSplit[2], <<",">>)]
             IN  Returned([w EXCEPT !.PSViolations[n].PodViolations =
                                        Append(@, podViolation)], <<>>)

\* the pod branch of the enrichment-capable aggregator: the last element is
\* indexed unguarded, the text is split on ": ", textSplit[1] is indexed
\* unguarded and split on ", ", and the PodViolation is appended through the
\* pointer to the last PSViolation
PodWarning(w, text) ==
    LET n == Len(w.PSViolations)
        textSplit == Split(text, <<":", " ">>)
    IN  IF n = 0 \/ Len(textSplit) < 2
        THEN Panicked(w)
        ELSE LET podViolation == [Name |-> TrimSpace(textSplit[1]),
                                  Deployment |-> NIL,
                                  Pod |-> NIL,
                                  Violations |-> Split(textSplit[2], <<",", " ">>)]
             IN  Returned([w EXCEPT !.PSViolations[n].PodViolations =
                                        Append(@, podViolation)], <<>>)

\* if w.defaultHandler == nil { return }
\* w.defaultHandler.HandleWarningHeader(code, agent, text)
\* The calls made on the default handler; seen is the tree the handler finds in
\* the mapper when it is called.
Forward(w, code, agent, text) ==
    IF w.defaultHandler = NoHandler
    THEN <<>>
    ELSE <<[code |-> code, agent |-> agent, text |-> text, seen |-> w.PSViolations]>>

\* a faulty HandleWarningHeader: the default handler is called before the
\* record is added
HandleNonEmptyForwardsFirst(w, code, agent, text) ==
    LET r == IF HasPrefix(text, NamespacePrefix)
             THEN NamespaceWarning(InitSlice(w), text)
             ELSE PodWarning(InitSlice(w), text)
    IN  IF r.panic THEN r ELSE Returned(r.w, Forward(w, code, agent, text))

\* HandleWarningHeader of the enrichment-capable aggregator after its first test
HandleNonEmpty(w, code, agent, text) ==
    LET r == IF HasPrefix(text, NamespacePrefix)
             THEN NamespaceWarning(InitSlice(w), text)
             ELSE PodWarning(InitSlice(w), text)
    IN  IF r.panic THEN r ELSE Returned(r.w, Forward(r.w, code, agent, text))

\* HandleWarningHeader of the simpler aggregator after its first test
HandleNonEmptySimple(w, code, agent, text) ==
    LET r == IF HasPrefix(text, NamespacePrefix)
             THEN NamespaceWarning(InitSlice(w), text)
             ELSE PodWarningSimple(InitSlice(w), text)
    IN  IF r.panic THEN r ELSE Returned(r.w, Forward(r.w, code, agent, text))

\* a faulty HandleWarningHeader: an empty text is forwarded before the return
HandleWarningHeaderForwardsEmpty(w, code, agent, text) ==
    IF text = <<>>
    THEN Returned(w, Forward(w, code, agent, text))
    ELSE HandleNonEmpty(w, code, agent, text)

\* warningsMapper.HandleWarningHeader, enrichment-capable aggregator
HandleWarningHeader(w, code, agent, text) ==
    IF text = <<>>
    THEN Returned(w, <<>>)
    ELSE HandleNonEmpty(w, code, agent, text)

\* warningsMapper.HandleWarningHeader, simpler aggregator
HandleWarningHeaderSimple(w, code, agent, text) ==
    IF text = <<>>
    THEN Returned(w, <<>>)
    ELSE HandleNonEmptySimple(w, code, agent, text)

Variants == {"simple", "enrichment"}

\* the HandleWarningHeader of the program that runs
Handle(v, w, code, agent, text) ==
    IF v = "simple"
    THEN HandleWarningHeaderSimple(w, code, agent, text)
    ELSE HandleWarningHeader(w, code, agent, text)

-----------------------------------------------------------------------------
(* warningsMapper.String *)

\* A document is the sequence of its pieces in order: the characters of the
\* strings it holds and the punctuation and field names between them.

\* a byte that is not valid UTF-8
InvalidUTF8 == "invalid UTF-8"

\* the escapes of encoding/json (HTML escaping is on by default): the quote and
\* the backslash, every control character below U+0020 (the short forms where
\* the encoder has them), the HTML characters, the line and paragraph
\* separators, and the replacement character for invalid UTF-8
EscapeChar(c) ==
    CASE c = "\"" -> <<"\\", "\"">>
      [] c = "\\" -> <<"\\", "\\">>
      [] c = "U+0008" -> <<"\\", "b">>
      [] c = "\f" -> <<"\\", "f">>
      [] c = "\n" -> <<"\\", "n">>
      [] c = "\r" -> <<"\\", "r">>
      [] c = "\t" -> <<"\\", "t">>
      [] c = "U+0000" -> <<"\\u0000">>
      [] c = "U+0001" -> <<"\\u0001">>
      [] c = "U+0002" -> <<"\\u0002">>
      [] c = "U+0003" -> <<"\\u0003">>
      [] c = "U+0004" -> <<"\\u0004">>
      [] c = "U+0005" -> <<"\\u0005">>
      [] c = "U+0006" -> <<"\\u0006">>
      [] c = "U+0007" -> <<"\\u0007">>
      [] c = "U+000B" -> <<"\\u000b">>
      [] c = "U+000E" -> <<"\\u000e">>
      [] c = "U+000F" -> <<"\\u000f">>
      [] c = "U+0010" -> <<"\\u0010">>
      [] c = "U+0011" -> <<"\\u0011">>
      [] c = "U+0012" -> <<"\\u0012">>
      [] c = "U+0013" -> <<"\\u0013">>
      [] c = "U+0014" -> <<"\\u0014">>
      [] c = "U+0015" -> <<"\\u0015">>
      [] c = "U+0016" -> <<"\\u0016">>
      [] c = "U+0017" -> <<"\\u0017">>
      [] c = "U+0018" -> <<"\\u0018">>
      [] c = "U+0019" -> <<"\\u0019">>
      [] c = "U+001A" -> <<"\\u001a">>
      [] c = "U+001B" -> <<"\\u001b">>
      [] c = "U+001C" -> <<"\\u001c">>
      [] c = "U+001D" -> <<"\\u001d">>
      [] c = "U+001E" -> <<"\\u001e">>
      [] c = "U+001F" -> <<"\\u001f">>
      [] c = "<"  -> <<"\\u003c">>
      [] c = ">"  -> <<"\\u003e">>
      [] c = "&"  -> <<"\\u0026">>
      [] c = "U+2028" -> <<"\\u2028">>
      [] c = "U+2029" -> <<"\\u2029">>
      [] c = InvalidUTF8 -> <<"\\ufffd">>
      [] OTHER    -> <<c>>

RECURSIVE EncodeString(_)
EncodeString(s) ==
    IF s = <<>> THEN <<>> ELSE EscapeChar(Head(s)) \o EncodeString(Tail(s))

EncodeQuoted(s) == Quote \o EncodeString(s) \o Quote

\* the documents of a slice's elements, with commas between them
RECURSIVE Join(_)
Join(docs) ==
    IF Len(docs) = 1 THEN docs[1] ELSE docs[1] \o <<",">> \o Join(Tail(docs))

\* a slice, given its elements' documents: null when nil
EncodeSlice(docs, isNil) ==
    IF isNil THEN <<"null">>
    ELSE IF docs = <<>> THEN <<"[]">>
    ELSE <<"[">> \o Join(docs) \o <<"]">>

\* metav1.OwnerReference: apiVersion, kind, name and uid are always written; the
\* kinds of the model are single pieces that need no escape
EncodeOwnerReference(ref) ==
    <<"{\"apiVersion\":\"\",\"kind\":">> \o Quote \o <<ref.Kind>> \o Quote
        \o <<",\"name\":">> \o EncodeQuoted(ref.Name)
        \o <<",\"uid\":\"\"}">>

\* metav1.ObjectMeta of an object that holds a name, a namespace and owner
\* references and the zero value elsewhere: name, namespace and
\* ownerReferences are omitted when empty, creationTimestamp is written as null
EncodeObjectMeta(o) ==
    LET name == IF o.Name = <<>> THEN <<>>
                ELSE << <<"\"name\":">> \o EncodeQuoted(o.Name) >>
        namespace == IF o.Namespace = <<>> THEN <<>>
                     ELSE << <<"\"namespace\":">> \o EncodeQuoted(o.Namespace) >>
        created == << <<"\"creationTimestamp\":null">> >>
        owners == IF o.OwnerReferences = <<>> THEN <<>>
                  ELSE << <<"\"ownerReferences\":">>
                          \o EncodeSlice([k \in 1..Len(o.OwnerReferences) |->
                                            EncodeOwnerReference(o.OwnerReferences[k])],
                                         FALSE) >>
    IN  <<"{">> \o Join(name \o namespace \o created \o owners) \o <<"}">>

\* the spec and the status of an object whose spec and status are the zero
\* value: the fields without omitempty and the nested structs are written
EncodeSpecAndStatus(kind) ==
    CASE kind = "Pod" ->
            <<"\"spec\":{\"containers\":null},\"status\":{}">>
      [] kind = "Deployment" ->
            <<"\"spec\":{\"selector\":null,\"template\":{\"metadata\":{\"creationTimestamp\":null},\"spec\":{\"containers\":null}},\"strategy\":{}},\"status\":{}">>
      [] kind = "ReplicaSet" ->
            <<"\"spec\":{\"selector\":null,\"template\":{\"metadata\":{\"creationTimestamp\":null},\"spec\":{\"containers\":null}}},\"status\":{\"replicas\":0}">>

\* a *Pod or *Deployment: null when nil, else the whole object, of which the
\* model holds the name, the namespace and the owner references
EncodeObject(o) ==
    IF o = NIL
    THEN <<"null">>
    ELSE <<"{\"metadata\":">> \o EncodeObjectMeta(o) \o <<",">>
            \o EncodeSpecAndStatus(o.Kind) \o <<"}">>

\* a PodViolation of the enrichment-capable aggregator (the simpler one never
\* holds a PodViolation in its mapper)
EncodePodViolation(pv) ==
    <<"{\"Name\":">> \o EncodeQuoted(pv.Name)
        \o <<",\"Deployment\":">> \o EncodeObject(pv.Deployment)
        \o <<",\"Pod\":">> \o EncodeObject(pv.Pod)
        \o <<",\"Violations\":">>
        \o EncodeSlice([k \in 1..Len(pv.Violations) |-> EncodeQuoted(pv.Violations[k])],
                       FALSE)
        \o <<"}">>

\* a PSViolation; PodViolations is nil until the first append
EncodePSViolation(psv) ==
    <<"{\"Namespace\":">> \o EncodeQuoted(psv.Namespace)
        \o <<",\"Level\":">> \o EncodeQuoted(psv.Level)
        \o <<",\"PodViolations\":">>
        \o EncodeSlice([k \in 1..Len(psv.PodViolations) |->
                            EncodePodViolation(psv.PodViolations[k])],
                       psv.PodViolations = <<>>)
        \o <<"}">>

\* json.NewEncoder(&b).Encode(w.PSViolations): the value and a line feed
Encode(w) ==
    EncodeSlice([k \in 1..Len(w.PSViolations) |-> EncodePSViolation(w.PSViolations[k])],
                w.isNil) \o <<"\n">>

\* a faulty String: the test for an empty list is missing
StringAlwaysEncodes(w, encodeFails) ==
    IF encodeFails THEN <<>> ELSE Encode(w)

\* warningsMapper.String; encodeFails is the encoder returning an error
String(w, encodeFails) ==
    IF Len(w.PSViolations) = 0
    THEN <<>>
    ELSE IF encodeFails THEN <<>> ELSE Encode(w)

\* what a String call gave: the string, and whether the encoder was run and
\* returned an error
Report(w, encodeFails) ==
    [value |-> String(w, encodeFails),
     encodeError |-> encodeFails /\ Len(w.PSViolations) > 0]

-----------------------------------------------------------------------------
(* The cluster as the programs see it *)

AuditLabel == "pod-security.kubernetes.io/audit"
EnforceLabel == "pod-security.kubernetes.io/enforce"
NameLabel == "kubernetes.io/metadata.name"

\* a Go map[string]string: nil or not, and its entries
NilMap == [isNil |-> TRUE, m |-> <<>>]
MapOf(f) == [isNil |-> FALSE, m |-> f]

\* labels[key]: the zero value "" for a missing key, and for a nil map
MapGet(labels, key) ==
    IF key \in DOMAIN labels.m THEN labels.m[key] ELSE ""

\* labels[key] = value on a map that is not nil
MapSet(labels, key, value) ==
    [labels EXCEPT !.m = [k \in (DOMAIN labels.m) \cup {key} |->
                              IF k = key THEN value ELSE labels.m[k]]]

\* the namespaces a list can hold: one with no labels at all, one with no
\* audit label, one with audit level baseline
NamespaceObjs ==
    { [Name |-> <<"a">>, Labels |-> NilMap],
      [Name |-> <<"b">>, Labels |-> MapOf([k \in {NameLabel} |-> "b"])],
      [Name |-> <<"c">>, Labels |-> MapOf([k \in {AuditLabel} |-> "baseline"])] }

RECURSIVE SeqsUpTo(_, _)
SeqsUpTo(S, n) ==
    IF n = 0 THEN {<<>>}
    ELSE LET shorter == SeqsUpTo(S, n - 1)
         IN  shorter \cup {Append(s, x) : s \in shorter, x \in S}

NamespaceLists == SeqsUpTo(NamespaceObjs, MaxNamespaces)

\* the warning texts the server can attach to a response
ServerTexts == Texts

\* the owner references a fetched Pod can carry
OwnerRef(kind, name) == [Kind |-> kind, Name |-> name]
PodOwnerChoices ==
    { <<>>,
      <<OwnerRef("Deployment", <<"d","1">>)>>,
      <<OwnerRef("ReplicaSet", <<"r","s","1">>)>>,
      <<OwnerRef("ReplicaSet", <<"r","s","2">>), OwnerRef("Deployment", <<"d","1">>)>>,
      <<OwnerRef("Job", <<"j","o","b","1">>)>> }

\* the owner references a fetched ReplicaSet can carry
ReplicaSetOwnerChoices ==
    { <<>>,
      <<OwnerRef("Deployment", <<"d","1">>)>>,
      <<OwnerRef("Deployment", <<"d","2">>), OwnerRef("Deployment", <<"d","1">>)>> }

\* what Get returns on success: the object of that kind, namespace and name
Object(kind, namespace, name, owners) ==
    [Kind |-> kind, Namespace |-> namespace, Name |-> name, OwnerReferences |-> owners]

\* mapAuditToEnforce: the copy it returns, the namespace passed in as it is
\* afterwards (its label map is written to when it has no audit label), and
\* whether the write hit a nil map
mapAuditToEnforce(namespace) ==
    LET ns == namespace
        noAudit == MapGet(ns.Labels, AuditLabel) = ""
        after == IF noAudit /\ ~namespace.Labels.isNil
                 THEN [namespace EXCEPT !.Labels = MapSet(@, AuditLabel, "restricted")]
                 ELSE namespace
    IN  IF (noAudit /\ namespace.Labels.isNil) \/ ns.Labels.isNil
        THEN [panic |-> TRUE, ns |-> ns, namespace |-> namespace]
        ELSE [panic |-> FALSE,
              ns |-> [ns EXCEPT !.Labels =
                          MapSet(@, EnforceLabel, MapGet(after.Labels, AuditLabel))],
              namespace |-> after]

-----------------------------------------------------------------------------
(* State *)

VARIABLES
    variant,     \* the program that runs: "simple" or "enrichment"
    w,           \* wh, the warningsMapper
    forwarded,   \* the calls the default handler has received, in order
    calls,       \* the HandleWarningHeader calls made so far, in order
    report,      \* <<what String returned>> once it has, <<>> before
    printed,     \* the lines written to standard output
    pc,          \* where the program stands
    todo,        \* namespaceList.Items not yet updated, the current one first
    pi,          \* index into wh.PSViolations of the owner-resolution pass
    pj,          \* index into psv.PodViolations of the owner-resolution pass
    loops,       \* the lengths of the slices the two range loops of the pass run over
    owner,       \* the name the next owner fetch asks for
    replicaSet,  \* the ReplicaSet fetched for the current pod violation
    lastCall,    \* the API call issued last and its result
    nFailed,     \* the API calls that have returned an error
    err,         \* the error app returned, "" if none
    flags,       \* log search: the flags -pattern (whether it compiles), -create, -logs, -debug
    pods,        \* log search: pods.Items as listed
    wg,          \* log search: the counter of the sync.WaitGroup
    worker       \* log search: the goroutine started for each listed pod

vars ==
    <<variant, w, forwarded, calls, report, printed, pc, todo, pi, pj, loops, owner,
      replicaSet, lastCall, nFailed, err, flags, pods, wg, worker>>

\* the flags of the log search as they are when none is given
DefaultFlags == [pattern |-> "valid", create |-> FALSE, logs |-> TRUE, debug |-> FALSE]

logVars == <<flags, pods, wg, worker>>

\* the warning tools run no log search
NoLogSearch ==
    /\ flags = DefaultFlags
    /\ pods = <<>>
    /\ wg = 0
    /\ worker = <<>>

appVars == <<printed, todo, pi, pj, loops, owner, replicaSet, lastCall, nFailed, err>>

NoCall == [op |-> "none", result |-> "ok"]

\* no range loop is running
NoLoops == [outer |-> 0, inner |-> 0]

ApiCall(op, namespace, name, dryRun, result) ==
    [op |-> op, namespace |-> namespace, name |-> name, dryRun |-> dryRun,
     result |-> result]

Result(ok) == IF ok THEN "ok" ELSE "error"

\* a faulty update request: no DryRun option, so the server would persist it
UpdateNamespacePersisting(namespace) ==
    [op |-> "update namespace", namespace |-> <<>>, name |-> namespace.Name,
     dryRun |-> <<>>, result |-> "pending", body |-> namespace]

\* client.CoreV1().Namespaces().Update(ctx, namespace,
\* metav1.UpdateOptions{DryRun: []string{"All"}}): the request as it is sent,
\* with the namespace object it carries
dryUpdateNamespace(namespace) ==
    [op |-> "update namespace", namespace |-> <<>>, name |-> namespace.Name,
     dryRun |-> <<"All">>, result |-> "pending", body |-> namespace]

-----------------------------------------------------------------------------
(* The handler on its own: a caller builds a warningsMapper with or without *)
(* a default handler, hands it warnings and reads String() at the end       *)

InitHandler ==
    /\ variant \in Variants
    /\ w \in {NewMapper(NoHandler), NewMapper(SpyHandler)}
    /\ forwarded = <<>>
    /\ calls = <<>>
    /\ report = <<>>
    /\ printed = <<>>
    /\ pc = "test"
    /\ todo = <<>>
    /\ pi = 0
    /\ pj = 0
    /\ loops = NoLoops
    /\ owner = <<>>
    /\ replicaSet = NIL
    /\ lastCall = NoCall
    /\ nFailed = 0
    /\ err = ""
    /\ NoLogSearch

\* one call of w.HandleWarningHeader(code, agent, text)
Call(code, agent, text) ==
    /\ pc = "test"
    /\ Len(calls) < MaxCalls
    /\ LET r == Handle(variant, w, code, agent, text)
       IN  /\ w' = r.w
           /\ forwarded' = forwarded \o r.forward
           /\ pc' = IF r.panic THEN "panic" ELSE "test"
    /\ calls' = Append(calls, [code |-> code, agent |-> agent, text |-> text])
    /\ UNCHANGED <<logVars, variant, report>>
    /\ UNCHANGED appVars

\* the caller reads w.String() and is done
CallString(encodeFails) ==
    /\ pc = "test"
    /\ report' = <<Report(w, encodeFails)>>
    /\ pc' = "done"
    /\ UNCHANGED <<logVars, variant, w, forwarded, calls>>
    /\ UNCHANGED appVars

NextHandler ==
    \/ \E code \in Codes, agent \in Agents, text \in Texts : Call(code, agent, text)
    \/ \E encodeFails \in BOOLEAN : CallString(encodeFails)

SpecHandler == InitHandler /\ [][NextHandler]_vars

-----------------------------------------------------------------------------
(* app *)

\* the places of the pod violations of the tree, in the order of the two loops
PodPlaces(tree) ==
    UNION { { <<a, b>> : b \in 1..Len(tree[a].PodViolations) } : a \in 1..Len(tree) }

Before(p, q) == p[1] < q[1] \/ (p[1] = q[1] /\ p[2] < q[2])

\* A range loop evaluates its slice once, when it starts: elements appended to
\* the slice while the loop runs are not visited.  ranged.outer is the length
\* wh.PSViolations had when the outer loop started, ranged.inner the length
\* psv.PodViolations had when the inner loop of the current psv started.

\* The next iteration after place <<i, j>>: the next pod violation of the inner
\* loop, or the first one of the next namespace violation of the outer loop
\* that has any (its inner loop starts on the list as it is then), or the end
\* of both loops
Advance(tree, i, j, ranged) ==
    IF j < ranged.inner
    THEN [pc |-> "getPod", pi |-> i, pj |-> j + 1, loops |-> ranged]
    ELSE LET later == {a \in (i + 1)..ranged.outer : Len(tree[a].PodViolations) > 0}
         IN  IF later = {}
             THEN [pc |-> "print", pi |-> 0, pj |-> 0, loops |-> NoLoops]
             ELSE [pc |-> "getPod", pi |-> Min(later), pj |-> 1,
                   loops |-> [ranged EXCEPT
                                 !.inner = Len(tree[Min(later)].PodViolations)]]

\* what follows the update loop: the simpler program returns to app and prints,
\* the enrichment-capable one starts its owner-resolution pass on the list of
\* namespace violations as it is then
AfterUpdates(v, tree) ==
    IF v = "simple"
    THEN [pc |-> "print", pi |-> 0, pj |-> 0, loops |-> NoLoops]
    ELSE Advance(tree, 0, 0, [outer |-> Len(tree), inner |-> 0])

\* app is entered; wh := &warningsMapper{} has no default handler
Init ==
    /\ variant \in Variants
    /\ w = NewMapper(NoHandler)
    /\ forwarded = <<>>
    /\ calls = <<>>
    /\ report = <<>>
    /\ printed = <<>>
    /\ pc = "start"
    /\ todo = <<>>
    /\ pi = 0
    /\ pj = 0
    /\ loops = NoLoops
    /\ owner = <<>>
    /\ replicaSet = NIL
    /\ lastCall = NoCall
    /\ nFailed = 0
    /\ err = ""
    /\ NoLogSearch

\* an API call came back with an error: app returns it, main panics with it
Fail(call) ==
    /\ lastCall' = call
    /\ nFailed' = nFailed + 1
    /\ err' = call.op
    /\ pc' = "error"

\* clientcmd.BuildConfigFromFlags and kubernetes.NewForConfig: app returns the
\* error of either before any API call is made
NewClient(ok) ==
    /\ pc = "start"
    /\ pc' = IF ok THEN "list" ELSE "error"
    /\ err' = IF ok THEN "" ELSE "client config"
    /\ UNCHANGED <<logVars, variant, w, forwarded, calls, report, printed, todo, pi, pj, loops, owner,
                   replicaSet, lastCall, nFailed>>

\* client.CoreV1().Namespaces().List
ListNamespaces(ok, items) ==
    /\ pc = "list"
    /\ LET call == ApiCall("list namespaces", <<>>, <<>>, <<>>, Result(ok))
       IN  IF ~ok
           THEN Fail(call) /\ UNCHANGED <<todo, pi, pj, loops>>
           ELSE LET next == IF items = <<>>
                            THEN AfterUpdates(variant, w.PSViolations)
                            ELSE [pc |-> "update", pi |-> 0, pj |-> 0, loops |-> NoLoops]
                IN  /\ lastCall' = call
                    /\ todo' = items
                    /\ pc' = next.pc
                    /\ pi' = next.pi
                    /\ pj' = next.pj
                    /\ loops' = next.loops
                    /\ UNCHANGED <<nFailed, err>>
    /\ UNCHANGED <<logVars, variant, w, forwarded, calls, report, printed, owner, replicaSet>>

\* the loop body up to the request: mapAuditToEnforce(&namespace), then the
\* Update with DryRun All is sent
UpdateNamespace ==
    /\ pc = "update"
    /\ LET r == mapAuditToEnforce(Head(todo))
       IN  IF r.panic
           THEN pc' = "panic" /\ UNCHANGED <<todo, lastCall>>
           ELSE /\ pc' = "updating"
                /\ todo' = [todo EXCEPT ![1] = r.namespace]
                /\ lastCall' = dryUpdateNamespace(r.ns)
    /\ UNCHANGED <<logVars, variant, w, forwarded, calls, report, printed, pi, pj, loops, owner,
                   replicaSet, nFailed, err>>

\* the requests of app whose response can carry warning headers: the List, the
\* Update under way and the Get calls of the pass
InFlight ==
    {"list", "updating", "getPod", "getDeployment", "getReplicaSet",
     "getOwnerDeployment"}

\* the transport hands one warning header of a response to the handler, before
\* the call that made the request returns; MaxWarnings bounds the headers of a run
Warning(text) ==
    /\ pc \in InFlight
    /\ Len(calls) < MaxWarnings
    /\ LET r == Handle(variant, w, 299, "-", text)
       IN  /\ w' = r.w
           /\ forwarded' = forwarded \o r.forward
           /\ pc' = IF r.panic THEN "panic" ELSE pc
    /\ calls' = Append(calls, [code |-> 299, agent |-> "-", text |-> text])
    /\ UNCHANGED <<logVars, variant, report>>
    /\ UNCHANGED appVars

\* a faulty update loop: the error of the Update is dropped and the loop goes on
UpdateReturnsIgnoresError(ok) ==
    /\ pc = "updating"
    /\ LET next == IF Tail(todo) = <<>>
                   THEN AfterUpdates(variant, w.PSViolations)
                   ELSE [pc |-> "update", pi |-> 0, pj |-> 0, loops |-> NoLoops]
       IN  /\ lastCall' = [lastCall EXCEPT !.result = Result(ok)]
           /\ todo' = Tail(todo)
           /\ pc' = next.pc
           /\ pi' = next.pi
           /\ pj' = next.pj
           /\ loops' = next.loops
           /\ nFailed' = IF ok THEN nFailed ELSE nFailed + 1
           /\ UNCHANGED err
    /\ UNCHANGED <<logVars, variant, w, forwarded, calls, report, printed, owner, replicaSet>>

\* the Update returns; on success the loop goes on with the next namespace
UpdateReturns(ok) ==
    /\ pc = "updating"
    /\ LET call == [lastCall EXCEPT !.result = Result(ok)]
       IN  IF ~ok
           THEN Fail(call) /\ UNCHANGED <<todo, pi, pj, loops>>
           ELSE LET next == IF Tail(todo) = <<>>
                            THEN AfterUpdates(variant, w.PSViolations)
                            ELSE [pc |-> "update", pi |-> 0, pj |-> 0, loops |-> NoLoops]
                IN  /\ lastCall' = call
                    /\ todo' = Tail(todo)
                    /\ pc' = next.pc
                    /\ pi' = next.pi
                    /\ pj' = next.pj
                    /\ loops' = next.loops
                    /\ UNCHANGED <<nFailed, err>>
    /\ UNCHANGED <<logVars, variant, w, forwarded, calls, report, printed, owner, replicaSet>>

\* the fields of the pod violation the pass stands at are written through its pointer
SetPod(tree, i, j, pod) == [tree EXCEPT ![i].PodViolations[j].Pod = pod]
SetDeployment(tree, i, j, deployment) ==
    [tree EXCEPT ![i].PodViolations[j].Deployment = deployment]

\* client.CoreV1().Pods(psv.Namespace).Get(podViolation.Name), then the switch
\* on pod.OwnerReferences[0].Kind, which indexes the references unguarded
GetPod(ok, owners) ==
    /\ pc = "getPod"
    /\ LET psv == w.PSViolations[pi]
           podViolation == psv.PodViolations[pj]
           call == ApiCall("get pod", psv.Namespace, podViolation.Name, <<>>, Result(ok))
           pod == Object("Pod", psv.Namespace, podViolation.Name, owners)
       IN  IF ~ok
           THEN Fail(call) /\ UNCHANGED <<w, pi, pj, loops, owner>>
           ELSE /\ lastCall' = call
                /\ w' = [w EXCEPT !.PSViolations = SetPod(@, pi, pj, pod)]
                /\ UNCHANGED <<nFailed, err>>
                /\ IF owners = <<>>
                   THEN pc' = "panic" /\ UNCHANGED <<pi, pj, loops, owner>>
                   ELSE IF owners[1].Kind = "Deployment"
                   THEN pc' = "getDeployment" /\ owner' = owners[1].Name
                        /\ UNCHANGED <<pi, pj, loops>>
                   ELSE IF owners[1].Kind = "ReplicaSet"
                   THEN pc' = "getReplicaSet" /\ owner' = owners[1].Name
                        /\ UNCHANGED <<pi, pj, loops>>
                   ELSE LET next == Advance(w.PSViolations, pi, pj, loops)
                        IN  pc' = next.pc /\ pi' = next.pi /\ pj' = next.pj
                            /\ loops' = next.loops
                            /\ UNCHANGED owner
    /\ UNCHANGED <<logVars, variant, forwarded, calls, report, printed, todo, replicaSet>>

\* a Deployment fetch came back: if err != nil { return err };
\* podViolation.Deployment = deployment; and the loops go on
FetchDeployment(ok, deployment) ==
    LET psv == w.PSViolations[pi]
        call == ApiCall("get deployment", psv.Namespace, owner, <<>>, Result(ok))
        next == Advance(w.PSViolations, pi, pj, loops)
    IN  /\ IF ~ok
           THEN Fail(call) /\ UNCHANGED <<w, pi, pj, loops>>
           ELSE /\ lastCall' = call
                /\ w' = [w EXCEPT !.PSViolations = SetDeployment(@, pi, pj, deployment)]
                /\ pc' = next.pc
                /\ pi' = next.pi
                /\ pj' = next.pj
                /\ loops' = next.loops
                /\ UNCHANGED <<nFailed, err>>
        /\ UNCHANGED <<logVars, variant, forwarded, calls, report, printed, todo, owner,
                       replicaSet>>

\* case Kind == "Deployment": Deployments(psv.Namespace).Get(pod.OwnerReferences[0].Name)
GetDeployment(ok) ==
    /\ pc = "getDeployment"
    /\ FetchDeployment(ok, Object("Deployment", w.PSViolations[pi].Namespace, owner, <<>>))

\* case Kind == "ReplicaSet": ReplicaSets(psv.Namespace).Get(pod.OwnerReferences[0].Name);
\* replicaSet.OwnerReferences[0] is then indexed unguarded
GetReplicaSet(ok, owners) ==
    /\ pc = "getReplicaSet"
    /\ LET psv == w.PSViolations[pi]
           call == ApiCall("get replicaset", psv.Namespace, owner, <<>>, Result(ok))
       IN  IF ~ok
           THEN Fail(call) /\ UNCHANGED <<owner, replicaSet>>
           ELSE /\ lastCall' = call
                /\ replicaSet' = Object("ReplicaSet", psv.Namespace, owner, owners)
                /\ UNCHANGED <<nFailed, err>>
                /\ IF owners = <<>>
                   THEN pc' = "panic" /\ UNCHANGED owner
                   ELSE pc' = "getOwnerDeployment" /\ owner' = owners[1].Name
    /\ UNCHANGED <<logVars, variant, w, forwarded, calls, report, printed, todo, pi, pj, loops>>

\* a faulty owner fetch: the ReplicaSet itself is stored as the Deployment
GetOwnerDeploymentStoresReplicaSet(ok) ==
    /\ pc = "getOwnerDeployment"
    /\ FetchDeployment(ok, replicaSet)

\* Deployments(psv.Namespace).Get(replicaSet.OwnerReferences[0].Name)
GetOwnerDeployment(ok) ==
    /\ pc = "getOwnerDeployment"
    /\ FetchDeployment(ok, Object("Deployment", w.PSViolations[pi].Namespace, owner, <<>>))

\* warnings := wh.String(); fmt.Println(warnings); return nil
PrintReport(encodeFails) ==
    /\ pc = "print"
    /\ report' = <<Report(w, encodeFails)>>
    /\ printed' = Append(printed, String(w, encodeFails) \o <<"\n">>)
    /\ pc' = "done"
    /\ UNCHANGED <<logVars, variant, w, forwarded, calls, todo, pi, pj, loops, owner, replicaSet,
                   lastCall, nFailed, err>>

Next ==
    \/ \E ok \in BOOLEAN : NewClient(ok)
    \/ \E ok \in BOOLEAN, items \in NamespaceLists : ListNamespaces(ok, items)
    \/ UpdateNamespace
    \/ \E text \in ServerTexts : Warning(text)
    \/ \E ok \in BOOLEAN : UpdateReturns(ok)
    \/ \E ok \in BOOLEAN, owners \in PodOwnerChoices : GetPod(ok, owners)
    \/ \E ok \in BOOLEAN : GetDeployment(ok)
    \/ \E ok \in BOOLEAN, owners \in ReplicaSetOwnerChoices : GetReplicaSet(ok, owners)
    \/ \E ok \in BOOLEAN : GetOwnerDeployment(ok)
    \/ \E encodeFails \in BOOLEAN : PrintReport(encodeFails)

Spec == Init /\ [][Next]_vars

-----------------------------------------------------------------------------
(* The log search of src/cmd/policy-controller-logs/main.go: main builds    *)
(* the clientset, with -create makes three namespaces with a pod each,     *)
(* and with -logs lists the pods, starts one goroutine per pod that runs   *)
(* searchPodLogs, waits for them on a sync.WaitGroup and prints            *)
(* "Search completed."                                                      *)

warningVars == <<w, forwarded, calls, report, todo, pi, pj, loops, owner, replicaSet,
                 nFailed>>

\* A line of the output is <<who, text>>: who is the pod of the goroutine that
\* printed it, 0 for main.
SearchCompleted == <<0, "Search completed.">>

\* the namespaces -create makes, in order
TestNamespaces ==
    <<"test-namespace-1", "openshift-test-namespace-2", "test-namespace-3">>

\* the pods -create has made and seen running so far
PodRunning(nsName) == <<0, "Pod is now running in namespace " \o nsName>>
Created ==
    Cardinality({k \in 1..Len(TestNamespaces) :
                    \E l \in 1..Len(printed) : printed[l] = PodRunning(TestNamespaces[k])})

\* a goroutine not started yet, and the stages of one that is: in req.Stream,
\* in io.Copy, in the search of the logs, in os.WriteFile, returned from
\* searchPodLogs, or panicking in regexp.MustCompile
NotStarted == [at |-> "none", pod |-> 0, stream |-> "none", outcome |-> "none"]

\* the goroutine has left searchPodLogs, by return or by panic, and its deferred
\* wg.Done() has run
Finished(g) == g.at \in {"returned", "panicking"}

\* the process is running: main has not panicked and no panic has ended it
Running == pc \in {"spawn", "wait", "done"}

\* main is entered, the flags are parsed
InitLogs ==
    /\ variant = "policy-controller-logs"
    /\ w = NewMapper(NoHandler)
    /\ forwarded = <<>>
    /\ calls = <<>>
    /\ report = <<>>
    /\ printed = <<>>
    /\ pc = "start"
    /\ todo = <<>>
    /\ pi = 0
    /\ pj = 0
    /\ loops = NoLoops
    /\ owner = <<>>
    /\ replicaSet = NIL
    /\ lastCall = NoCall
    /\ nFailed = 0
    /\ err = ""
    /\ flags \in [pattern : {"valid", "invalid"}, create : BOOLEAN, logs : BOOLEAN,
                  debug : BOOLEAN]
    /\ pods = <<>>
    /\ wg = 0
    /\ worker = <<>>

\* where main goes once the resources are there, or are not asked for
AfterCreate == IF flags.logs THEN "listPods" ELSE "done"

\* with -debug the options are printed; then clientcmd.BuildConfigFromFlags and
\* kubernetes.NewForConfig, main panics on the error of either
NewClientset(ok) ==
    /\ pc = "start"
    /\ printed' = IF flags.debug THEN Append(printed, <<0, "Options">>) ELSE printed
    /\ IF ~ok
       THEN pc' = "panic" /\ err' = "client config"
       ELSE /\ pc' = IF flags.create THEN "create" ELSE AfterCreate
            /\ UNCHANGED err
    /\ UNCHANGED <<variant, lastCall>>
    /\ UNCHANGED logVars
    /\ UNCHANGED warningVars

\* createNamespaceAndPod for the next of the three namespaces: the namespace is
\* created, then the pod, then waitForPodRunning polls the pod until it runs;
\* failed names what made createNamespaceAndPod return an error ("none" if
\* nothing did): the call that returned an error ("wait" is an error of a
\* Pods.Get of the poll), or "timeout" when every Get succeeded and the pod was
\* still not running after the minute wait.PollImmediate allows.  On an error
\* main prints it and returns.
CreateNamespaceAndPod(failed) ==
    /\ pc = "create"
    /\ LET k == Created + 1
           nsName == TestNamespaces[k]
           op == CASE failed = "namespace" -> "create namespace"
                   [] failed = "pod" -> "create pod"
                   [] OTHER -> "get pod"
           lines == (IF failed \in {"none", "wait", "timeout"}
                     THEN << <<0, "Pod created successfully in namespace " \o nsName>> >>
                     ELSE <<>>)
                    \o (IF failed = "none"
                        THEN <<PodRunning(nsName)>>
                        ELSE << <<0, "Error creating namespace and pod">> >>)
       IN  /\ lastCall' = ApiCall(op, IF op = "create namespace" THEN <<>> ELSE <<nsName>>,
                                  IF op = "create namespace" THEN <<nsName>>
                                  ELSE <<"test-pod">>,
                                  <<>>, Result(failed \in {"none", "timeout"}))
           /\ printed' = printed \o lines
           /\ pc' = IF failed # "none" THEN "done"
                    ELSE IF k = Len(TestNamespaces) THEN AfterCreate ELSE "create"
    /\ UNCHANGED <<variant, err>>
    /\ UNCHANGED logVars
    /\ UNCHANGED warningVars

\* pods, err := clientset.CoreV1().Pods("").List(...); main panics on an error.
\* The list is what the server holds at that moment, in all namespaces
ListPods(ok, n) ==
    /\ pc = "listPods"
    /\ IF ~ok
       THEN /\ pc' = "panic"
            /\ err' = "list pods"
            /\ UNCHANGED <<pods, worker>>
       ELSE /\ pods' = [i \in 1..n |-> i]
            /\ worker' = [i \in 1..n |-> NotStarted]
            /\ pc' = IF n = 0 THEN "wait" ELSE "spawn"
            /\ UNCHANGED err
    /\ lastCall' = ApiCall("list pods", <<>>, <<>>, <<>>, Result(ok))
    /\ UNCHANGED <<variant, printed, flags, wg>>
    /\ UNCHANGED warningVars

\* one iteration of the loop over pods.Items: wg.Add(1), then the goroutine is
\* started with its own copy of the pod
Spawn ==
    /\ pc = "spawn"
    /\ LET i == Min({k \in 1..Len(pods) : worker[k].at = "none"})
       IN  /\ wg' = wg + 1
           /\ worker' = [worker EXCEPT ![i] = [@ EXCEPT !.at = "stream", !.pod = pods[i]]]
           /\ pc' = IF i = Len(pods) THEN "wait" ELSE "spawn"
    /\ UNCHANGED <<variant, printed, flags, pods, lastCall, err>>
    /\ UNCHANGED warningVars

\* searchPodLogs returns: the deferred podLogs.Close() of an open stream, then
\* the deferred wg.Done() of the goroutine
Return(g, outcome) ==
    [g EXCEPT !.at = "returned",
              !.outcome = outcome,
              !.stream = IF @ = "open" THEN "closed" ELSE @]

\* podLogs, err := req.Stream(ctx): on an error the goroutine prints it and returns
OpenStream(i, ok) ==
    /\ Running
    /\ i \in 1..Len(worker)
    /\ worker[i].at = "stream"
    /\ IF ok
       THEN /\ worker' = [worker EXCEPT ![i] = [@ EXCEPT !.at = "copy", !.stream = "open"]]
            /\ UNCHANGED <<printed, wg>>
       ELSE /\ printed' = Append(printed, <<worker[i].pod, "Error opening log stream">>)
            /\ worker' = [worker EXCEPT ![i] = Return(@, "open error")]
            /\ wg' = wg - 1
    /\ UNCHANGED <<variant, pc, flags, pods, lastCall, err>>
    /\ UNCHANGED warningVars

\* _, err = io.Copy(buf, podLogs): on an error the goroutine prints it and returns
CopyLogs(i, ok) ==
    /\ Running
    /\ i \in 1..Len(worker)
    /\ worker[i].at = "copy"
    /\ IF ok
       THEN /\ worker' = [worker EXCEPT ![i] = [@ EXCEPT !.at = "search"]]
            /\ UNCHANGED <<printed, wg>>
       ELSE /\ printed' = Append(printed, <<worker[i].pod, "Error reading logs">>)
            /\ worker' = [worker EXCEPT ![i] = Return(@, "read error")]
            /\ wg' = wg - 1
    /\ UNCHANGED <<variant, pc, flags, pods, lastCall, err>>
    /\ UNCHANGED warningVars

\* re := regexp.MustCompile(pattern), which panics on a pattern that does not
\* compile (the deferred Close and Done still run); then the matches are
\* counted: with none the goroutine says so and returns, else it prints their
\* number and goes on to write the logs to a file
SearchLogs(i, found) ==
    /\ Running
    /\ i \in 1..Len(worker)
    /\ worker[i].at = "search"
    /\ IF flags.pattern = "invalid"
       THEN /\ worker' = [worker EXCEPT ![i] = [@ EXCEPT !.at = "panicking",
                                                         !.stream = "closed"]]
            /\ wg' = wg - 1
            /\ UNCHANGED printed
       ELSE IF found
       THEN /\ printed' = Append(printed, <<worker[i].pod, "Found matches">>)
            /\ worker' = [worker EXCEPT ![i] = [@ EXCEPT !.at = "save"]]
            /\ UNCHANGED wg
       ELSE /\ printed' = Append(printed, <<worker[i].pod, "No matches found">>)
            /\ worker' = [worker EXCEPT ![i] = Return(@, "no match")]
            /\ wg' = wg - 1
    /\ UNCHANGED <<variant, pc, flags, pods, lastCall, err>>
    /\ UNCHANGED warningVars

\* err := os.WriteFile(filename, buf.Bytes(), 0644): the goroutine prints the
\* error or the file name, and returns
SaveLogs(i, saved) ==
    /\ Running
    /\ i \in 1..Len(worker)
    /\ worker[i].at = "save"
    /\ printed' = Append(printed, <<worker[i].pod,
                                    IF saved THEN "Logs saved" ELSE "Error saving logs">>)
    /\ worker' = [worker EXCEPT ![i] = Return(@, IF saved THEN "saved" ELSE "save error")]
    /\ wg' = wg - 1
    /\ UNCHANGED <<variant, pc, flags, pods, lastCall, err>>
    /\ UNCHANGED warningVars

\* the panic of a goroutine ends the process once its deferred calls have run;
\* main, if it has returned by then, is held back by the runtime until it does
Crash ==
    /\ Running
    /\ \E i \in 1..Len(worker) : worker[i].at = "panicking"
    /\ pc' = "crashed"
    /\ UNCHANGED <<variant, printed, lastCall, err>>
    /\ UNCHANGED logVars
    /\ UNCHANGED warningVars

\* a faulty wait: main goes on to print whatever the counter is
WaitReturnsEarly ==
    /\ pc = "wait"
    /\ printed' = Append(printed, SearchCompleted)
    /\ pc' = "done"
    /\ UNCHANGED <<variant, lastCall, err>>
    /\ UNCHANGED logVars
    /\ UNCHANGED warningVars

\* wg.Wait() returns when the counter is zero; fmt.Println("Search completed.")
Wait ==
    /\ pc = "wait"
    /\ wg = 0
    /\ printed' = Append(printed, SearchCompleted)
    /\ pc' = "done"
    /\ UNCHANGED <<variant, lastCall, err>>
    /\ UNCHANGED logVars
    /\ UNCHANGED warningVars

NextLogs ==
    \/ \E ok \in BOOLEAN : NewClientset(ok)
    \/ \E failed \in {"none", "namespace", "pod", "wait", "timeout"} :
            CreateNamespaceAndPod(failed)
    \/ \E ok \in BOOLEAN, n \in 0..MaxPods : ListPods(ok, n)
    \/ Spawn
    \/ \E i \in 1..MaxPods, ok \in BOOLEAN : OpenStream(i, ok)
    \/ \E i \in 1..MaxPods, ok \in BOOLEAN : CopyLogs(i, ok)
    \/ \E i \in 1..MaxPods, found \in BOOLEAN : SearchLogs(i, found)
    \/ \E i \in 1..MaxPods, saved \in BOOLEAN : SaveLogs(i, saved)
    \/ Crash
    \/ Wait

SpecLogs == InitLogs /\ [][NextLogs]_vars

\* the Go scheduler runs every goroutine that can run, and a request for a
\* pod's logs without Follow ends
SpecLogsFair == SpecLogs /\ WF_vars(NextLogs)

-----------------------------------------------------------------------------
(* Properties: common definitions *)

IsNamespaceShape(text) == HasPrefix(text, NamespacePrefix)
IsPodShape(text) == text # <<>> /\ ~IsNamespaceShape(text)

\* the calls that have returned: all of them, but the last when it panicked
ReturnedCalls ==
    IF pc = "panic" THEN SubSeq(calls, 1, Len(calls) - 1) ELSE calls

NamespaceCall(c) == IsNamespaceShape(c.text)
PodCall(c) == IsPodShape(c.text)
NonEmptyCall(c) == c.text # <<>>

\* the pod violations a tree holds
PodCount(tree) == Cardinality(PodPlaces(tree))

\* the namespace and level each well-formed namespace-shape text names, and the
\* pod violation each well-formed pod-shape text describes, written out by hand
ExpectedNamespace(text) ==
    CASE text = NsMsgA ->
            [Namespace |-> <<"p","0","t","-","s","e","k","u","r","i","t","y">>,
             Level |-> <<"r","e","s","t","r","i","c","t","e","d",":","l","a","t","e","s","t">>]
      [] text = NsMsgB ->
            [Namespace |-> <<"b">>, Level |-> <<"b","a","s","e","l","i","n","e">>]
      [] text = NsMsgThree ->
            [Namespace |-> <<"c">>, Level |-> <<"v","1">>]

ExpectedPod(text) ==
    CASE text = PodMsgA ->
            [Name |-> <<"p","0","t","-","s","e","k","u","r","i","t","y">>,
             Violations |->
                << <<"a","l","l","o","w","P","r","i","v","i","l","e","g","e","E","s","c","a","l","a","t","i","o","n"," ","!","="," ","f","a","l","s","e">>,
                   <<"u","n","r","e","s","t","r","i","c","t","e","d"," ","c","a","p","a","b","i","l","i","t","i","e","s">> >>]
      [] text = PodMsgB ->
            [Name |-> <<"w","e","b">>,
             Violations |->
                << <<"r","u","n","A","s","N","o","n","R","o","o","t"," ","!","="," ","t","r","u","e">>,
                   <<"h","o","s","t","P","o","r","t">>,
                   <<"h","o","s","t","P","o","r","t">> >>]

WellFormedNamespaceTexts == {NsMsgA, NsMsgB, NsMsgThree}
WellFormedPodTexts == {PodMsgA, PodMsgB}

\* a string with no white space at either end
Trimmed(s) == s = <<>> \/ (s[1] \notin WhiteSpace /\ s[Len(s)] \notin WhiteSpace)

\* the step is a HandleWarningHeader call with empty text
EmptyCallStep ==
    /\ Len(calls') = Len(calls) + 1
    /\ calls'[Len(calls')].text = <<>>

-----------------------------------------------------------------------------
(* C1 *)

\* C1: in the enrichment-capable aggregator, after any calls with non-empty text in which every pod-shape text comes
\* after some namespace-shape text, PSViolations holds one entry for each
\* namespace-shape text, in arrival order (the entry names the namespace the
\* text names), whatever pod-shape texts came between.
C1_OneEntryPerNamespaceMessage ==
    LET texts == [k \in 1..Len(calls) |-> calls[k].text]
        pre == /\ \A k \in 1..Len(texts) : texts[k] # <<>>
               /\ \A k \in 1..Len(texts) :
                     IsPodShape(texts[k]) =>
                        \E m \in 1..(k - 1) : IsNamespaceShape(texts[m])
        shaped == SelectSeq(texts, IsNamespaceShape)
    IN  (variant = "enrichment" /\ pre) =>
          /\ Len(w.PSViolations) = Len(shaped)
          /\ \A k \in 1..Len(shaped) :
                shaped[k] \in WellFormedNamespaceTexts =>
                   /\ w.PSViolations[k].Namespace = ExpectedNamespace(shaped[k]).Namespace
                   /\ w.PSViolations[k].Level = ExpectedNamespace(shaped[k]).Level

-----------------------------------------------------------------------------
(* C2 *)

\* C2: in the enrichment-capable aggregator, a well-formed namespace-shape text
\* followed by one well-formed pod-shape text gives exactly one PSViolation with
\* the namespace and level named, holding exactly one PodViolation with the
\* trimmed pod name and the violations in order, none with white space at
\* either end.
C2_NamespaceThenPod ==
    ( /\ variant = "enrichment"
      /\ Len(calls) = 2
      /\ calls[1].text \in WellFormedNamespaceTexts
      /\ calls[2].text \in WellFormedPodTexts )
    =>
    /\ pc # "panic"
    /\ w.PSViolations =
          << [Namespace |-> ExpectedNamespace(calls[1].text).Namespace,
              Level |-> ExpectedNamespace(calls[1].text).Level,
              PodViolations |->
                 << [Name |-> ExpectedPod(calls[2].text).Name,
                     Deployment |-> NIL,
                     Pod |-> NIL,
                     Violations |-> ExpectedPod(calls[2].text).Violations] >>] >>
    /\ \A pv \in {w.PSViolations[1].PodViolations[k] :
                     k \in 1..Len(w.PSViolations[1].PodViolations)} :
          /\ Trimmed(pv.Name)
          /\ \A k \in 1..Len(pv.Violations) : Trimmed(pv.Violations[k])

\* the example of the source comment has been handled
C2_Witness ==
    /\ variant = "enrichment"
    /\ Len(calls) = 2
    /\ calls[1].text = NsMsgA
    /\ calls[2].text = PodMsgA
    /\ pc = "test"
    /\ Len(w.PSViolations) = 1
    /\ Len(w.PSViolations[1].PodViolations) = 1

-----------------------------------------------------------------------------
(* C3 *)

\* C3: a HandleWarningHeader call with empty text changes nothing: the mapper
\* and its tree stay as they are, no handler is called, with or without a
\* default handler, and the call returns.
C3_EmptyTextNoOp ==
    [][EmptyCallStep => (w' = w /\ forwarded' = forwarded /\ pc' = pc)]_vars

\* an empty text has been handled by a mapper with a default handler and a tree
C3_Witness ==
    /\ w.defaultHandler = SpyHandler
    /\ Len(calls) = 3
    /\ calls[3].text = <<>>
    /\ PodCount(w.PSViolations) = 1
    /\ pc = "test"

-----------------------------------------------------------------------------
(* C4 *)

\* C4 as stated: with a default handler an empty text is still forwarded to it,
\* the tree staying as it is; without one nothing is forwarded.
C4_EmptyTextForwarded ==
    [][EmptyCallStep =>
          /\ w'.PSViolations = w.PSViolations
          /\ (w.defaultHandler = SpyHandler =>
                 /\ Len(forwarded') = Len(forwarded) + 1
                 /\ forwarded'[Len(forwarded')].text = <<>>)
          /\ (w.defaultHandler = NoHandler => forwarded' = forwarded)]_vars

\* C4 amended: with a default handler an empty text is not forwarded to it (the
\* handler has received exactly what it had received before) and the tree stays
\* as it is; without one nothing is ever forwarded.
C4_EmptyTextNotForwarded ==
    [][EmptyCallStep =>
          /\ w'.PSViolations = w.PSViolations
          /\ (w.defaultHandler = SpyHandler => forwarded' = forwarded)
          /\ (w.defaultHandler = NoHandler => forwarded' = <<>>)]_vars

\* the default handler has seen the namespace text and not the empty one after it
C4_Witness ==
    /\ w.defaultHandler = SpyHandler
    /\ Len(calls) = 2
    /\ calls[1].text = NsMsgB
    /\ calls[2].text = <<>>
    /\ Len(forwarded) = 1
    /\ forwarded[1].text = NsMsgB

-----------------------------------------------------------------------------
(* C5 *)

\* C5: with a default handler, the handler has received exactly the calls with
\* non-empty text that returned, each once, with the code, agent and text of
\* the call and in arrival order, and each time it found the record of that
\* call already in the tree; without a default handler nothing is forwarded.
C5_RecordedThenForwarded ==
    LET expected == SelectSeq(ReturnedCalls, NonEmptyCall)
        received == [k \in 1..Len(forwarded) |->
                        [code |-> forwarded[k].code,
                         agent |-> forwarded[k].agent,
                         text |-> forwarded[k].text]]
    IN  /\ w.defaultHandler = NoHandler => forwarded = <<>>
        /\ w.defaultHandler = SpyHandler =>
              /\ received = expected
              /\ \A k \in 1..Len(forwarded) :
                    LET upTo == SubSeq(expected, 1, k)
                    IN  /\ Len(forwarded[k].seen) = Len(SelectSeq(upTo, NamespaceCall))
                        /\ variant = "enrichment" =>
                              PodCount(forwarded[k].seen) = Len(SelectSeq(upTo, PodCall))

\* three recorded warnings have reached the default handler
C5_Witness ==
    /\ w.defaultHandler = SpyHandler
    /\ variant = "enrichment"
    /\ Len(calls) = 3
    /\ calls[1].text = NsMsgA
    /\ calls[2].text = PodMsgA
    /\ calls[3].text = NsMsgB
    /\ calls[1].code # calls[2].code
    /\ Len(forwarded) = 3

-----------------------------------------------------------------------------
(* C6 *)

\* C6: HandleWarningHeader of the enrichment-capable aggregator never fails:
\* whatever the text, the call returns.
C6_NeverFails == variant = "enrichment" => pc # "panic"

-----------------------------------------------------------------------------
(* C7 *)

\* the pod violation at place p has been dealt with by the owner-resolution pass
HandledPlace(p) == pc \in {"print", "done"} \/ Before(p, <<pi, pj>>)

\* every pod violation dealt with whose Pod is owned first by a ReplicaSet holds
\* a Deployment of the violation's namespace
ReplicaSetOwnedResolved ==
    \A p \in PodPlaces(w.PSViolations) :
        LET psv == w.PSViolations[p[1]]
            pv == psv.PodViolations[p[2]]
        IN  ( /\ HandledPlace(p)
              /\ pv.Pod # NIL
              /\ pv.Pod.OwnerReferences # <<>>
              /\ pv.Pod.OwnerReferences[1].Kind = "ReplicaSet" )
            => /\ pv.Deployment # NIL
               /\ pv.Deployment.Kind = "Deployment"
               /\ pv.Deployment.Namespace = psv.Namespace

\* the step that ends the fetch of a ReplicaSet's owner with success stores the
\* Deployment named by the first owner reference of the ReplicaSet that the
\* Pod's first owner reference names
OwnerDeploymentStored ==
    (pc = "getOwnerDeployment" /\ pc' \in {"getPod", "print"}) =>
        LET psv == w.PSViolations[pi]
            pv == psv.PodViolations[pj]
        IN  /\ replicaSet.Kind = "ReplicaSet"
            /\ replicaSet.Namespace = psv.Namespace
            /\ replicaSet.Name = pv.Pod.OwnerReferences[1].Name
            /\ w'.PSViolations[pi].PodViolations[pj].Deployment =
                  Object("Deployment", psv.Namespace,
                         replicaSet.OwnerReferences[1].Name, <<>>)

\* C7: a pod violation whose Pod is owned first by a ReplicaSet gets as
\* Deployment the Deployment named by that ReplicaSet's first owner reference,
\* fetched in the violation's namespace; it is never the ReplicaSet and, once
\* the pass has moved on, never unset.
C7_ReplicaSetOwnerResolved ==
    [][OwnerDeploymentStored /\ ReplicaSetOwnedResolved']_vars

\* the pass is over and a pod violation owned through a ReplicaSet with two
\* owner references holds the Deployment of the first
C7_Witness ==
    /\ pc = "print"
    /\ replicaSet # NIL
    /\ Len(replicaSet.OwnerReferences) = 2
    /\ \E p \in PodPlaces(w.PSViolations) :
          LET pv == w.PSViolations[p[1]].PodViolations[p[2]]
          IN  /\ pv.Pod # NIL
              /\ pv.Pod.OwnerReferences[1].Kind = "ReplicaSet"
              /\ pv.Deployment # NIL
              /\ pv.Deployment.Name = replicaSet.OwnerReferences[1].Name

-----------------------------------------------------------------------------
(* C8 *)

\* C8: a pod violation whose Pod has no owner references is handled without
\* error: the program does not fail on it and its Deployment stays unset.
C8_NoOwnerNoError ==
    \A p \in PodPlaces(w.PSViolations) :
        LET pv == w.PSViolations[p[1]].PodViolations[p[2]]
        IN  (variant = "enrichment" /\ pv.Pod # NIL /\ pv.Pod.OwnerReferences = <<>>)
            => (pc # "panic" /\ pv.Deployment = NIL)

-----------------------------------------------------------------------------
(* C9 *)

\* C9: once an API call has failed the run is over: app has returned that
\* call's error, the failed call is the last call issued and the only one that
\* failed, and nothing has been printed; and a call that failed is never left
\* behind by a program that goes on.
C9_FailFast ==
    /\ lastCall.result = "error" => nFailed > 0
    /\ nFailed > 0 =>
          /\ nFailed = 1
          /\ pc = "error"
          /\ lastCall.result = "error"
          /\ err = lastCall.op
          /\ printed = <<>>
          /\ report = <<>>
    /\ (pc = "error" /\ lastCall # NoCall) => nFailed = 1

\* a Deployment fetch has failed after warnings were collected
C9_Witness ==
    /\ pc = "error"
    /\ lastCall.op = "get deployment"
    /\ lastCall.result = "error"
    /\ PodCount(w.PSViolations) = 2
    /\ pi = 1
    /\ pj = 2
    /\ printed = <<>>

-----------------------------------------------------------------------------
(* C10 *)

\* C10: String returns the empty string whenever the mapper holds no
\* PSViolation, and a non-empty document, a JSON array followed by a line feed,
\* whenever it holds one and the encoder returned no error.
C10_StringOfTree ==
    report # <<>> =>
        LET s == report[1].value
        IN  /\ Len(w.PSViolations) = 0 => s = <<>>
            /\ (Len(w.PSViolations) > 0 /\ ~report[1].encodeError) =>
                  /\ s # <<>>
                  /\ s[1] = "["
                  /\ s[Len(s) - 1] = "]"
                  /\ s[Len(s)] = "\n"

\* String has been read after nothing but empty texts
C10_Witness ==
    /\ pc = "done"
    /\ Len(calls) = 2
    /\ \A k \in 1..Len(calls) : calls[k].text = <<>>
    /\ report # <<>>
    /\ report[1].value = <<>>

-----------------------------------------------------------------------------
(* C11 *)

Resolving == {"getPod", "getDeployment", "getReplicaSet", "getOwnerDeployment"}
FetchOps == {"get pod", "get replicaset", "get deployment"}

\* the owner-resolution pass has issued, or is about to issue, a fetch
PassStarted == pc \in Resolving \/ lastCall.op \in FetchOps

\* every pod violation of the tree has had its Pod fetched and stored
AllPodsFetched ==
    \A p \in PodPlaces(w.PSViolations) :
        w.PSViolations[p[1]].PodViolations[p[2]].Pod # NIL

\* what the warnings have recorded: the tree without the fields the pass fills in
Recorded(tree) ==
    [a \in 1..Len(tree) |->
        [Namespace |-> tree[a].Namespace,
         Level |-> tree[a].Level,
         PodViolations |->
            [b \in 1..Len(tree[a].PodViolations) |->
                [Name |-> tree[a].PodViolations[b].Name,
                 Violations |-> tree[a].PodViolations[b].Violations]]]]

PhasesInOrder ==
    /\ PassStarted => (todo = <<>> /\ lastCall.result # "pending")
    /\ (pc = "print" \/ report # <<>>) => (todo = <<>> /\ AllPodsFetched)

NoWarningInPass ==
    PassStarted =>
        /\ calls' = calls
        /\ forwarded' = forwarded
        /\ Recorded(w'.PSViolations) = Recorded(w.PSViolations)
        /\ lastCall'.op # "update namespace"

\* C11: the run of the enrichment-capable program is phased: once the
\* owner-resolution pass has started every namespace update has returned and
\* none is issued any more, no warning reaches the handler and what the
\* warnings recorded in the tree stays as it is, and the report is serialized
\* only when the Pod of every pod violation has been fetched.
C11_StrictlyPhased ==
    /\ [](variant = "enrichment" => PhasesInOrder)
    /\ [][variant = "enrichment" => NoWarningInPass]_vars

\* the part of it that is the order of the calls: in the enrichment-capable
\* program every namespace update has returned when the pass issues a fetch
C11_UpdatesBeforePass ==
    variant = "enrichment" =>
        (PassStarted => (todo = <<>> /\ lastCall.result # "pending"))

-----------------------------------------------------------------------------
(* C12 *)

\* the step is a HandleWarningHeader call with a pod-shape text
PodCallStep ==
    /\ Len(calls') = Len(calls) + 1
    /\ IsPodShape(calls'[Len(calls')].text)

\* tree is old with one pod violation more at the end of its last entry, and
\* nothing else changed
OneMoreInLast(old, tree) ==
    LET n == Len(old)
    IN  /\ Len(tree) = n
        /\ \A a \in 1..(n - 1) : tree[a] = old[a]
        /\ tree[n].Namespace = old[n].Namespace
        /\ tree[n].Level = old[n].Level
        /\ Len(tree[n].PodViolations) = Len(old[n].PodViolations) + 1
        /\ \A b \in 1..Len(old[n].PodViolations) :
              tree[n].PodViolations[b] = old[n].PodViolations[b]

\* C12: in the enrichment-capable handler, with two or more namespace
\* violations recorded, a call with a pod-shape text appends exactly one pod
\* violation at the end of the list of the last namespace violation and leaves
\* the earlier namespace violations, and the pod violations already there,
\* as they were.
C12_PodAppendedToLast ==
    [][(variant = "enrichment" /\ PodCallStep /\ Len(w.PSViolations) >= 2)
          => OneMoreInLast(w.PSViolations, w'.PSViolations)]_vars

\* the same for the calls that return
C12_ReturnedPodAppendedToLast ==
    [][(variant = "enrichment" /\ PodCallStep /\ Len(w.PSViolations) >= 2
           /\ pc' # "panic")
          => OneMoreInLast(w.PSViolations, w'.PSViolations)]_vars

-----------------------------------------------------------------------------
(* C13 *)

\* the calls so far: one well-formed namespace-shape text, then well-formed
\* pod-shape texts only
NamespaceThenPods ==
    /\ calls # <<>>
    /\ calls[1].text \in WellFormedNamespaceTexts
    /\ \A k \in 2..Len(calls) : calls[k].text \in WellFormedPodTexts

\* C13: in the simpler aggregator, after a namespace-shape message followed by
\* k pod-shape messages the one namespace violation stored holds k pod
\* violations, named after the messages in their order of arrival.
C13_SimpleKeepsPodViolations ==
    (variant = "simple" /\ NamespaceThenPods) =>
        /\ Len(w.PSViolations) = 1
        /\ Len(w.PSViolations[1].PodViolations) = Len(calls) - 1
        /\ \A b \in 1..Len(w.PSViolations[1].PodViolations) :
              w.PSViolations[1].PodViolations[b].Name = ExpectedPod(calls[b + 1].text).Name

-----------------------------------------------------------------------------
(* C14 *)

\* C14: a call with a pod-shape text made while no namespace violation is
\* recorded fails (index out of range on the empty list): the call panics,
\* nothing is recorded and the default handler is not called.
C14_OrphanPodFails ==
    [][(PodCallStep /\ Len(w.PSViolations) = 0)
          => /\ pc' = "panic"
             /\ Len(w'.PSViolations) = 0
             /\ forwarded' = forwarded]_vars

\* a mapper with a default handler has panicked on its first call, a well-formed
\* pod-shape text
C14_Witness ==
    /\ pc = "panic"
    /\ variant = "enrichment"
    /\ w.defaultHandler = SpyHandler
    /\ Len(calls) = 1
    /\ calls[1].text = PodMsgA
    /\ forwarded = <<>>

-----------------------------------------------------------------------------
(* C15 *)

ColonSpace == <<":", " ">>
CommaSpace == <<",", " ">>

\* the part of a text before its first ": ", and the whole of what follows it
BeforeFirstColon(text) == SubSeq(text, 1, Index(text, ColonSpace) - 1)
AfterFirstColon(text) ==
    SubSeq(text, Index(text, ColonSpace) + Len(ColonSpace), Len(text))

\* the characters of the parts, with the separator put back between them
RECURSIVE Rejoin(_, _)
Rejoin(parts, sep) ==
    IF Len(parts) = 0 THEN <<>>
    ELSE IF Len(parts) = 1 THEN parts[1]
    ELSE parts[1] \o sep \o Rejoin(Tail(parts), sep)

\* the pod violation a step has appended to the last namespace violation
Appended(tree) ==
    LET psv == tree[Len(tree)]
    IN  psv.PodViolations[Len(psv.PodViolations)]

\* C15: a pod-shape text with a ": " in it is recorded as a pod violation whose
\* Name is the part before the first ": " with the white space trimmed, and
\* whose Violations are the whole of what follows that first ": ", split on
\* ", " in order and with duplicates kept: none of it is lost, a further ": "
\* included.
C15_WholeRemainderSplit ==
    [][(variant = "enrichment" /\ PodCallStep /\ Len(w.PSViolations) >= 1
           /\ Index(calls'[Len(calls')].text, ColonSpace) > 0)
          => LET text == calls'[Len(calls')].text
                 pv == Appended(w'.PSViolations)
             IN  /\ pc' # "panic"
                 /\ pv.Name = TrimSpace(BeforeFirstColon(text))
                 /\ pv.Violations = Split(AfterFirstColon(text), CommaSpace)
                 /\ Rejoin(pv.Violations, CommaSpace) = AfterFirstColon(text)]_vars

-----------------------------------------------------------------------------
(* C16 *)

\* the step is a HandleWarningHeader call with a namespace-shape text
NamespaceCallStep ==
    /\ Len(calls') = Len(calls) + 1
    /\ IsNamespaceShape(calls'[Len(calls')].text)

\* the places of the double quotes of a text, and the k-th of them
QuotePlaces(text) == {i \in 1..Len(text) : text[i] = "\""}
QuotePlace(text, k) ==
    CHOOSE i \in QuotePlaces(text) :
        Cardinality({j \in QuotePlaces(text) : j <= i}) = k

\* the k-th quoted segment of a text whose quotes pair up around non-empty
\* segments: what stands between quote 2k-1 and quote 2k
QuotedSegment(text, k) ==
    SubSeq(text, QuotePlace(text, 2 * k - 1) + 1, QuotePlace(text, 2 * k) - 1)

\* C16: a namespace-shape text with two or more quoted non-empty segments
\* appends one namespace violation whose Namespace is the first quoted segment
\* and whose Level is the second, with no pod violations; further quoted
\* segments are ignored and the entries already there stay.
C16_FirstTwoQuotedSegments ==
    [][(NamespaceCallStep /\ calls'[Len(calls')].text \in WellFormedNamespaceTexts)
          => LET text == calls'[Len(calls')].text
                 psv == [Namespace |-> QuotedSegment(text, 1),
                         Level |-> QuotedSegment(text, 2),
                         PodViolations |-> <<>>]
             IN  /\ pc' # "panic"
                 /\ w'.PSViolations = Append(w.PSViolations, psv)
                 /\ psv.Namespace = ExpectedNamespace(text).Namespace
                 /\ psv.Level = ExpectedNamespace(text).Level]_vars

\* a text with three quoted segments has been recorded after another entry
C16_Witness ==
    /\ pc # "panic"
    /\ Len(calls) = 2
    /\ calls[2].text = NsMsgThree
    /\ Len(w.PSViolations) = 2
    /\ w.PSViolations[2] = [Namespace |-> <<"c">>, Level |-> <<"v", "1">>,
                            PodViolations |-> <<>>]

-----------------------------------------------------------------------------
(* C17 *)

ReadOps == {"none", "list namespaces"} \cup FetchOps

\* the only call that writes is the namespace Update, and it carries DryRun All
OnlyDryRunWrites ==
    /\ lastCall.op \in ReadOps \cup {"update namespace"}
    /\ lastCall.op = "update namespace" => lastCall.dryRun = <<"All">>

\* once the update loop is left without an error no listed namespace is left
UpdateLoopCompletes ==
    pc \in Resolving \cup {"print", "done"} => todo = <<>>

\* a step that issues an Update: with no call under way, for the first of the
\* namespaces still to do
UpdateIssued ==
    (lastCall'.result = "pending" /\ lastCall.result # "pending") =>
        /\ todo # <<>>
        /\ lastCall'.op = "update namespace"
        /\ lastCall'.name = Head(todo).Name
        /\ lastCall'.dryRun = <<"All">>
        /\ Len(todo') = Len(todo)

\* while an Update is under way no other call starts: the call returns first
UpdateBlocks ==
    lastCall.result = "pending" =>
        \/ lastCall' = lastCall
        \/ \E ok \in BOOLEAN : lastCall' = [lastCall EXCEPT !.result = Result(ok)]

\* a namespace leaves the list when its own Update has returned with success,
\* the first of the list and that one only
UpdateCompleted ==
    (todo # <<>> /\ Len(todo') # Len(todo)) =>
        /\ lastCall.op = "update namespace"
        /\ lastCall.result = "pending"
        /\ lastCall.name = Head(todo).Name
        /\ lastCall' = [lastCall EXCEPT !.result = "ok"]
        /\ todo' = Tail(todo)

\* C17: every namespace Update carries DryRun All; the updates are issued one
\* at a time, each for the first listed namespace not yet updated and each
\* after the one before it has returned, so each listed namespace is updated
\* once and in list order; no persisting update, create or delete is issued.
C17_DryRunUpdatesInOrder ==
    /\ [](OnlyDryRunWrites /\ UpdateLoopCompletes)
    /\ [][UpdateIssued /\ UpdateBlocks /\ UpdateCompleted]_vars

\* of two listed namespaces the first has had its dry-run Update, which brought
\* a warning and returned with success, and the second is next
C17_Witness ==
    /\ pc = "update"
    /\ Len(todo) = 1
    /\ todo[1].Name = <<"c">>
    /\ lastCall.op = "update namespace"
    /\ lastCall.name = <<"b">>
    /\ lastCall.dryRun = <<"All">>
    /\ lastCall.result = "ok"
    /\ calls # <<>>

-----------------------------------------------------------------------------
(* C18 *)

\* the enforce level mapAuditToEnforce is to set for a namespace: its audit
\* label, or restricted when it has none
LevelToEnforce(namespace) ==
    IF MapGet(namespace.Labels, AuditLabel) = ""
    THEN "restricted"
    ELSE MapGet(namespace.Labels, AuditLabel)

\* C18: for every listed namespace, one with a nil label map or with no audit
\* label included, the update loop's mapAuditToEnforce hands the Update a copy
\* whose enforce label is the audit label of the namespace (restricted when it
\* has none), and the namespace passed in is left as it was.
C18_CopyLeavesInput ==
    [][pc = "update"
          => /\ pc' = "updating"
             /\ lastCall'.body.Name = Head(todo).Name
             /\ MapGet(lastCall'.body.Labels, EnforceLabel) = LevelToEnforce(Head(todo))
             /\ todo' = todo]_vars

\* the same for the namespaces that carry an audit label
C18_AuditLabelledCopyLeavesInput ==
    [][(pc = "update" /\ MapGet(Head(todo).Labels, AuditLabel) # "")
          => /\ pc' = "updating"
             /\ lastCall'.body.Name = Head(todo).Name
             /\ MapGet(lastCall'.body.Labels, EnforceLabel) = LevelToEnforce(Head(todo))
             /\ todo' = todo]_vars

-----------------------------------------------------------------------------
(* C19 *)

Completed == \E k \in 1..Len(printed) : printed[k] = SearchCompleted

\* one goroutine per listed pod, each with its own pod; the counter of the
\* WaitGroup is the number of goroutines that have not finished
OneWorkerPerPod ==
    /\ Len(worker) = Len(pods)
    /\ \A i \in 1..Len(worker) : worker[i].at # "none" => worker[i].pod = pods[i]
    /\ pc \in {"wait", "done"} => \A i \in 1..Len(worker) : worker[i].at # "none"
    /\ wg = Cardinality({i \in 1..Len(worker) :
                            worker[i].at # "none" /\ ~Finished(worker[i])})

\* "Search completed." is printed once, as the last line, when every goroutine
\* has finished
CompletedAfterWorkers ==
    Completed =>
        /\ printed[Len(printed)] = SearchCompleted
        /\ \A k \in 1..(Len(printed) - 1) : printed[k] # SearchCompleted
        /\ \A i \in 1..Len(pods) : Finished(worker[i])

\* main panics only on a failed client set-up or a failed List, and a goroutine
\* ends the process only by its panic on a pattern that does not compile,
\* never by a stream that fails
EndedEarlyOnlyByPanic ==
    /\ pc = "panic" => (err \in {"client config", "list pods"} /\ pods = <<>>)
    /\ pc = "crashed" =>
          /\ flags.pattern = "invalid"
          /\ \E i \in 1..Len(worker) : worker[i].at = "panicking"

\* goroutine i ends in this step on a log stream it could not open or read
StreamFails(i) ==
    /\ ~Finished(worker[i])
    /\ worker'[i].at = "returned"
    /\ worker'[i].outcome \in {"open error", "read error"}

\* such a goroutine ends on its own: the others and main are where they were
FailureStaysLocal ==
    \A i \in 1..Len(worker) :
        StreamFails(i) =>
            /\ worker' = [worker EXCEPT ![i] = worker'[i]]
            /\ wg' = wg - 1
            /\ pc' = pc
            /\ pods' = pods

\* C19: the log search starts one goroutine per listed pod and prints
\* "Search completed." only when all of them have finished, whatever the
\* interleaving; a goroutine whose log stream cannot be opened or read ends on
\* its own, leaving the others and main as they were, and the run still gets
\* to "Search completed.": a search that has come to list the pods is kept
\* from it only by a failed List or by the panic of a goroutine.
C19_SearchCompletes ==
    /\ [](OneWorkerPerPod /\ CompletedAfterWorkers /\ EndedEarlyOnlyByPanic)
    /\ [][FailureStaysLocal]_vars
    /\ (pc = "listPods") ~> (Completed \/ pc \in {"panic", "crashed"})

\* the search is completed with two pods listed, one goroutine having failed to
\* open its stream and the other having saved its pod's logs
C19_Witness ==
    /\ Completed
    /\ pc = "done"
    /\ Len(pods) = 2
    /\ worker[1].outcome = "open error"
    /\ worker[2].outcome = "saved"
    /\ \E k \in 1..Len(printed) :
          /\ printed[k] = <<2, "Found matches">>
          /\ printed[k + 1] = <<1, "Error opening log stream">>
          /\ printed[k + 2] = <<2, "Logs saved">>

====
